---- MODULE Spec2Model ----
(***************************************************************************)
(* Model of the pattern-based legal issue detector of LegalLens-AI         *)
(* (src/lib/legal-patterns.ts): the rule registry indianLegalPatterns and  *)
(* the function analyzeDocument.                                           *)
(*                                                                         *)
(* Texts are TLA+ strings; the regular expressions of the registry are     *)
(* matched character by character with the leftmost, ordered-alternative,  *)
(* greedy-with-backtracking semantics of ECMAScript.  The risk score is an *)
(* IEEE-754 binary64 number, modelled exactly (see Double below).          *)
(***************************************************************************)
EXTENDS Integers, Sequences, FiniteSets, TLC

VARIABLES text, pc, cleanText, detectedIssues, riskScore, result,
          lastIndex, calls,
          invocations,
          request, response, events, db, handled,
          clauses,
          uploadedFiles, processing, nextId, pdfJsLoaded,
          users, ensureCalls, nodeEnv

callVars == <<text, pc, cleanText, result, calls>>

requestVars == <<request, response, events, db, handled>>

clauseVars == <<clauses>>

uploadVars == <<uploadedFiles, processing, nextId, pdfJsLoaded>>

userVars == <<users, ensureCalls, nodeEnv>>

componentVars == <<clauseVars, uploadVars, userVars>>

vars == <<text, pc, cleanText, detectedIssues, riskScore, result, lastIndex, calls,
          invocations, request, response, events, db, handled, componentVars>>

(***************************************************************************)
(* Bounds of the model.                                                    *)
(***************************************************************************)
\* number of clauses a document is assembled from
MaxClauses == 2
\* number of successive calls of analyzeDocument
MaxCalls == 2

\* invocations of analyzeDocument in progress together
MaxInvocations == 2

\* requests the routes handle in a run
MaxRequests == 2

(***************************************************************************)
(* Characters.                                                             *)
(***************************************************************************)
Min(a, b) == IF a <= b THEN a ELSE b

UpperLetters == "ABCDEFGHIJKLMNOPQRSTUVWXYZ"
LowerLetters == "abcdefghijklmnopqrstuvwxyz"

CharAt(s, i) == SubSeq(s, i, i)

\* the letters of the two cases, paired by position
LowerOf == [c \in {CharAt(UpperLetters, i) : i \in 1..26} |->
              CharAt(LowerLetters, CHOOSE i \in 1..26 : CharAt(UpperLetters, i) = c)]

\* Canonicalize of the ignoreCase flag: two characters match when their
\* case foldings are equal (the pattern literals are lower-case ASCII)
Canonicalize(c) == IF c \in DOMAIN LowerOf THEN LowerOf[c] ELSE c

\* the characters lo..hi of s, canonicalized (by halves, to keep the
\* evaluation shallow)
RECURSIVE CanonicalizeRange(_, _, _)
CanonicalizeRange(s, lo, hi) ==
  IF lo > hi THEN ""
  ELSE IF lo = hi THEN Canonicalize(CharAt(s, lo))
  ELSE LET mid == (lo + hi) \div 2
       IN CanonicalizeRange(s, lo, mid) \o CanonicalizeRange(s, mid + 1, hi)

CanonicalizeString(s) == CanonicalizeRange(s, 1, Len(s))

\* String.prototype.toLowerCase and toUpperCase on the characters of the model
UpperOf == [c \in {CharAt(LowerLetters, i) : i \in 1..26} |->
              CharAt(UpperLetters, CHOOSE i \in 1..26 : CharAt(LowerLetters, i) = c)]

RECURSIVE ToUpperCaseRange(_, _, _)
ToUpperCaseRange(s, lo, hi) ==
  IF lo > hi THEN ""
  ELSE IF lo = hi
       THEN (IF CharAt(s, lo) \in DOMAIN UpperOf THEN UpperOf[CharAt(s, lo)]
             ELSE CharAt(s, lo))
  ELSE LET mid == (lo + hi) \div 2
       IN ToUpperCaseRange(s, lo, mid) \o ToUpperCaseRange(s, mid + 1, hi)

ToUpperCase(s) == ToUpperCaseRange(s, 1, Len(s))

RECURSIVE ToLowerCaseRange(_, _, _)
ToLowerCaseRange(s, lo, hi) ==
  IF lo > hi THEN ""
  ELSE IF lo = hi
       THEN (IF CharAt(s, lo) \in DOMAIN LowerOf THEN LowerOf[CharAt(s, lo)]
             ELSE CharAt(s, lo))
  ELSE LET mid == (lo + hi) \div 2
       IN ToLowerCaseRange(s, lo, mid) \o ToLowerCaseRange(s, mid + 1, hi)

ToLowerCase(s) == ToLowerCaseRange(s, 1, Len(s))

\* the class \s on the characters of the model
WhiteSpace == {" ", "\n", "\t", "\r"}
\* the class of /\n+/
LineFeed == {"\n"}

\* String.prototype.replace(/[class]+/g, ' '): every maximal run of characters
\* of the class becomes one space
\* what character i of s becomes: the first character of a run a space, the
\* others of the run nothing, any other character itself
ReplacedChar(s, class, i) ==
  IF CharAt(s, i) \notin class THEN CharAt(s, i)
  ELSE IF i > 1 /\ CharAt(s, i - 1) \in class THEN ""
  ELSE " "

RECURSIVE ReplaceRunsRange(_, _, _, _)
ReplaceRunsRange(s, class, lo, hi) ==
  IF lo > hi THEN ""
  ELSE IF lo = hi THEN ReplacedChar(s, class, lo)
  ELSE LET mid == (lo + hi) \div 2
       IN ReplaceRunsRange(s, class, lo, mid) \o ReplaceRunsRange(s, class, mid + 1, hi)

ReplaceRuns(s, class) == ReplaceRunsRange(s, class, 1, Len(s))

\* String.prototype.substring(0, n)
Substring0(s, n) == SubSeq(s, 1, Min(n, Len(s)))

\* String.prototype.includes, on an already canonicalized subject
Includes(s, w) ==
  \E p \in 1..(Len(s) - Len(w) + 1) : SubSeq(s, p, p + Len(w) - 1) = w

(***************************************************************************)
(* Regular expressions.  A pattern of the registry is an ordered list of   *)
(* alternatives; an alternative is a chain of elements separated by `.*`;  *)
(* an element is an ordered list of literal alternatives, as in            *)
(*   governed by.*law.*(?:singapore|uk|...)                                *)
(* Positions are 1-based; an end is the position after the match; 0 is     *)
(* failure.  `.` matches every character but a line terminator; every      *)
(* subject is cleanText, in which replace(/\s+/g, ' ') has left none.      *)
(***************************************************************************)
LitAt(lit, s, p) ==
  /\ p + Len(lit) - 1 <= Len(s)
  /\ SubSeq(s, p, p + Len(lit) - 1) = lit

Least(S) == CHOOSE p \in S : \A q \in S : p <= q
Greatest(S) == CHOOSE p \in S : \A q \in S : q <= p

RECURSIVE ChainEnd(_, _, _, _, _)
RECURSIVE GreedyEnd(_, _, _, _)

\* the literal lit of element k matched at p, then the rest of the chain
LitThenRest(chain, k, lit, s, p) ==
  IF ~LitAt(lit, s, p) THEN 0
  ELSE IF k = Len(chain) THEN p + Len(lit)
  ELSE GreedyEnd(chain, k + 1, s, p + Len(lit))

\* the end found with alternative j, or else with the alternatives after it
OrNextLiteral(rest, chain, k, j, s, p) ==
  IF rest # 0 THEN rest ELSE ChainEnd(chain, k, j + 1, s, p)

\* elements k.. of the chain matched at p, trying the literal alternatives
\* j.. of element k in order and backtracking into the next one on failure
ChainEnd(chain, k, j, s, p) ==
  IF j > Len(chain[k]) THEN 0
  ELSE OrNextLiteral(LitThenRest(chain, k, chain[k][j], s, p), chain, k, j, s, p)

\* the rest of the chain matched at the greatest of the positions
EndAtGreatest(chain, k, s, starts) ==
  IF starts = {} THEN 0 ELSE ChainEnd(chain, k, 1, s, Greatest(starts))

\* `.*` followed by elements k..: the longest run of `.*` after which the
\* rest matches, that is the greatest position q >= lo where it does
GreedyEnd(chain, k, s, lo) ==
  EndAtGreatest(chain, k, s, {q \in lo..Len(s) : ChainEnd(chain, k, 1, s, q) # 0})

\* the alternatives a.. of the pattern tried in order at p
RECURSIVE AltEnd(_, _, _, _)

\* the end found with alternative a, or else with the alternatives after it
OrNextAlt(r, alts, a, s, p) ==
  IF r # 0 THEN r ELSE AltEnd(alts, a + 1, s, p)

AltEnd(alts, a, s, p) ==
  IF a > Len(alts) THEN 0
  ELSE OrNextAlt(ChainEnd(alts[a], 1, 1, s, p), alts, a, s, p)

\* RegExpBuiltinExec from lastIndex p - 1: the leftmost match at or after p
\* the match at the least of the positions where the pattern matches
MatchAtLeast(alts, s, starts) ==
  IF starts = {} THEN <<>>
  ELSE <<[index |-> Least(starts), end |-> AltEnd(alts, 1, s, Least(starts))]>>

ExecFrom(alts, s, p) ==
  MatchAtLeast(alts, s, {q \in p..Len(s) : AltEnd(alts, 1, s, q) # 0})

\* the successive matches of a global pattern
RECURSIVE MatchAllFrom(_, _, _)

\* the match m and the matches after its end
AndFollowing(m, alts, s) ==
  IF m = <<>> THEN <<>> ELSE m \o MatchAllFrom(alts, s, m[1].end)

MatchAllFrom(alts, s, p) == AndFollowing(ExecFrom(alts, s, p), alts, s)

\* the subject as the pattern compares it
Subject(re, s) == IF re.ignoreCase THEN CanonicalizeString(s) ELSE s

\* a pattern ^(?!.*w1)(?!.*w2)...(?!.*wn).*$ : matches, from position 1 and
\* over the whole subject, iff none of the words occurs in it
NoneOfMatch(re, s) ==
  IF \E i \in 1..Len(re.words) : Includes(Subject(re, s), re.words[i])
  THEN <<>>
  ELSE <<[index |-> 1, end |-> Len(s) + 1]>>

\* the spans a pattern matches in s: all of them for a global pattern, the
\* first one otherwise
Spans(re, s) ==
  IF re.kind = "noneOf" THEN NoneOfMatch(re, s)
  ELSE IF re.global THEN MatchAllFrom(re.alts, Subject(re, s), 1)
  ELSE ExecFrom(re.alts, Subject(re, s), 1)

\* String.prototype.match: the matched strings (<<>> stands for null); the
\* patterns have no capture group, so a non-global match has length 1
MatchedStrings(s, sp) ==
  [i \in 1..Len(sp) |-> SubSeq(s, sp[i].index, sp[i].end - 1)]

StringMatch(s, re) == MatchedStrings(s, Spans(re, s))

\* pattern.exec(s) on a pattern object whose lastIndex is li: a global
\* pattern searches from lastIndex and leaves the end of its match there
RegExpMatchAsExec(re, s, li) ==
  IF re.kind = "alts" /\ re.global
  THEN LET m == ExecFrom(re.alts, Subject(re, s), li + 1)
       IN [spans |-> m, lastIndex |-> IF m = <<>> THEN 0 ELSE m[1].end - 1]
  ELSE [spans |-> Spans(re, s), lastIndex |-> li]

\* RegExp.prototype[Symbol.match], which String.prototype.match calls, on a
\* pattern object whose lastIndex is li: a global pattern has its lastIndex
\* set to 0 before the search and again by the exec that ends it; any other
\* pattern searches from 0 and keeps its lastIndex
RegExpMatch(re, s, li) ==
  [spans |-> Spans(re, s), lastIndex |-> IF re.global THEN 0 ELSE li]

\* RegExp.prototype.test on a pattern object created for this call
RegExpTest(re, s) == ExecFrom(re.alts, Subject(re, s), 1) # <<>>

Lit(w) == <<<<w>>>>
Then(w1, w2) == <<<<w1>>, <<w2>>>>
Then3(w1, w2, w3) == <<<<w1>>, <<w2>>, <<w3>>>>
Then4(w1, w2, w3, w4) == <<<<w1>>, <<w2>>, <<w3>>, <<w4>>>>

(***************************************************************************)
(* IEEE-754 binary64 numbers.  The scores of the program are sums of the   *)
(* literals 0.25, 0.15 and 0.1, all below 2.  A number is written          *)
(*     h / 100  +  e * 2^-57 / 25          (h hundredths, e the error)     *)
(* that is, the integer N = h * 2^55 + e in units of 2^-57 / 25.  A        *)
(* binary64 number with unit in the last place 2^(k-57) is a multiple of   *)
(* 25 * 2^k units; N modulo that is found from N mod 25 = (18 h + e) mod   *)
(* 25 (2^55 = 18 mod 25) and N mod 2^(k+1) = e mod 2^(k+1).                *)
(***************************************************************************)
Double(h, e) == [h |-> h, e |-> e]

Zero == Double(0, 0)

\* a < b, for numbers whose errors are far below a hundredth
Less(a, b) == a.h < b.h \/ (a.h = b.h /\ a.e < b.e)

\* k with 2^(k-5) <= x < 2^(k-4): the binade of x in [0.0625, 2)
Binade(x) ==
  IF x.h <= 12 THEN 1
  ELSE IF Less(x, Double(25, 0)) THEN 2
  ELSE IF Less(x, Double(50, 0)) THEN 3
  ELSE IF Less(x, Double(100, 0)) THEN 4
  ELSE 5

Pow2(k) == CASE k = 1 -> 2 [] k = 2 -> 4 [] k = 3 -> 8 [] k = 4 -> 16
             [] k = 5 -> 32 [] k = 6 -> 64

\* N modulo 2 * 25 * 2^k, from its residues modulo 25 and modulo 2^(k+1)
Residue(x, k) ==
  CHOOSE r \in 0..(50 * Pow2(k) - 1) :
    /\ r % 25 = (18 * x.h + x.e) % 25
    /\ r % Pow2(k + 1) = x.e % Pow2(k + 1)

\* x moved to the nearest multiple of M, to the even one on a tie; r2 is N
\* modulo 2 M
Nearest(x, M, r2) ==
  IF 2 * (r2 % M) < M THEN Double(x.h, x.e - (r2 % M))
  ELSE IF 2 * (r2 % M) > M THEN Double(x.h, x.e + M - (r2 % M))
  ELSE IF r2 < M THEN Double(x.h, x.e - (r2 % M))
  ELSE Double(x.h, x.e + M - (r2 % M))

\* round to nearest, ties to even
RoundToDouble(x) == Nearest(x, 25 * Pow2(Binade(x)), Residue(x, Binade(x)))

\* the binary64 value of the decimal literal h / 100
Literal(h) == IF h = 0 THEN Zero ELSE RoundToDouble(Double(h, 0))

\* a + b in binary64
Add(a, b) ==
  IF a = Zero THEN b
  ELSE IF b = Zero THEN a
  ELSE RoundToDouble(Double(a.h + b.h, a.e + b.e))

\* Math.min
MathMin(a, b) == IF Less(b, a) THEN b ELSE a

(***************************************************************************)
(* The rule registry.                                                      *)
(***************************************************************************)
Global(alts) == [kind |-> "alts", alts |-> alts, global |-> TRUE, ignoreCase |-> TRUE]

\* /unlimited.*liability|liability.*unlimited|shall be liable for all|without limitation of liability/gi
UnlimitedLiabilityPattern ==
  Global(<<Then("unlimited", "liability"), Then("liability", "unlimited"),
           Lit("shall be liable for all"), Lit("without limitation of liability")>>)

\* /penalty|punitive damages|penalty of|shall pay.*penalty|penalty clause/gi
PenaltyClausePattern ==
  Global(<<Lit("penalty"), Lit("punitive damages"), Lit("penalty of"),
           Then("shall pay", "penalty"), Lit("penalty clause")>>)

\* /governed by.*law.*(?:singapore|uk|us|new york|english|american|foreign)/gi
ForeignJurisdictionPattern ==
  Global(<< <<<<"governed by">>, <<"law">>,
              <<"singapore", "uk", "us", "new york", "english", "american", "foreign">>>> >>)

\* /^(?!.*arbitration)(?!.*mediation)(?!.*dispute resolution)(?!.*courts?).*$/
\* (no flag; the lookahead on courts? fails exactly when court occurs)
MissingArbitrationPattern ==
  [kind |-> "noneOf", global |-> FALSE, ignoreCase |-> FALSE,
   words |-> <<"arbitration", "mediation", "dispute resolution", "court">>]

\* /terminate.*without.*notice|immediate termination|terminate.*at.*will|terminate.*without.*cause.*notice/gi
UnfairTerminationPattern ==
  Global(<<Then3("terminate", "without", "notice"), Lit("immediate termination"),
           Then3("terminate", "at", "will"),
           Then4("terminate", "without", "cause", "notice")>>)

indianLegalPatterns ==
  << [id |-> "unlimited_liability", riskLevel |-> "HIGH", category |-> "Liability",
      pattern |-> UnlimitedLiabilityPattern],
     [id |-> "penalty_clause", riskLevel |-> "HIGH", category |-> "Damages",
      pattern |-> PenaltyClausePattern],
     [id |-> "foreign_jurisdiction", riskLevel |-> "MEDIUM", category |-> "Jurisdiction",
      pattern |-> ForeignJurisdictionPattern],
     [id |-> "missing_arbitration", riskLevel |-> "MEDIUM", category |-> "Dispute Resolution",
      pattern |-> MissingArbitrationPattern],
     [id |-> "unfair_termination", riskLevel |-> "MEDIUM", category |-> "Termination",
      pattern |-> UnfairTerminationPattern] >>

\* the scan without its first alternative
DisputeResolutionPatternNoArbitration ==
  Global(<<Lit("mediation"), Lit("dispute resolution"), Then("jurisdiction", "court")>>)

\* /arbitration|mediation|dispute resolution|jurisdiction.*court/gi
DisputeResolutionPattern ==
  Global(<<Lit("arbitration"), Lit("mediation"), Lit("dispute resolution"),
           Then("jurisdiction", "court")>>)

(***************************************************************************)
(* analyzeDocument.                                                        *)
(***************************************************************************)
\* the longest excerpt kept of a match
ExcerptLength == 100

SyntheticExcerpt == "No dispute resolution mechanism found in document"

\* the text with its runs of line feeds replaced only
CleanTextLineFeedsOnly(t) == ReplaceRuns(t, LineFeed)

\* text.replace(/\n+/g, ' ').replace(/\s+/g, ' ')
CleanText(t) == ReplaceRuns(ReplaceRuns(t, LineFeed), WhiteSpace)

\* pattern.riskLevel === 'HIGH' ? 0.25 : pattern.riskLevel === 'MEDIUM' ? 0.15 : 0.1
riskWeight(riskLevel) ==
  IF riskLevel = "HIGH" THEN Literal(25)
  ELSE IF riskLevel = "MEDIUM" THEN Literal(15)
  ELSE Literal(10)

\* the excerpt without the ellipsis
matchedTextCut(m) == Substring0(m, ExcerptLength)

\* matches[0].substring(0, 100) + (matches[0].length > 100 ? '...' : '')
matchedText(m) ==
  Substring0(m, ExcerptLength) \o (IF Len(m) > ExcerptLength THEN "..." ELSE "")

\* { ...pattern, matches, matchedText }
DetectedIssue(p, n, excerpt) ==
  [id |-> p.id, riskLevel |-> p.riskLevel, category |-> p.category,
   matches |-> n, matchedText |-> excerpt]

\* the registry visited from its last rule to its first
LoopRulesReversed ==
  [i \in 1..Len(indianLegalPatterns) |->
     indianLegalPatterns[Len(indianLegalPatterns) + 1 - i]]

\* the rules the loop `for (const pattern of indianLegalPatterns)` visits
LoopRules == indianLegalPatterns

\* the lastIndex of the pattern objects of the registry when the module is
\* loaded
InitialLastIndex ==
  [id \in {indianLegalPatterns[i].id : i \in 1..Len(indianLegalPatterns)} |-> 0]

\* what a call finds when it starts: the lastIndex of the registry's pattern
\* objects and what the previous call left in its locals
Environment(li, issues, score) ==
  [lastIndex |-> li, detectedIssues |-> issues, riskScore |-> score]

FreshEnvironment == Environment(InitialLastIndex, <<>>, Zero)

\* the accumulators left over from the previous call
AccumulatorsKept(env) ==
  [issues |-> env.detectedIssues, score |-> env.riskScore, threw |-> FALSE,
   lastIndex |-> env.lastIndex]

\* const detectedIssues = []; let riskScore = 0: the accumulators are locals
\* of the call (threw: an exception has left the function)
Accumulators(env) ==
  [issues |-> <<>>, score |-> Zero, threw |-> FALSE, lastIndex |-> env.lastIndex]

\* the body of the loop recording one match whatever matches.length is
LoopBodyCountingOne(pattern, matches, acc) ==
  IF Len(matches) > 0
  THEN [acc EXCEPT
          !.issues = Append(acc.issues,
                            DetectedIssue(pattern, 1, matchedText(matches[1]))),
          !.score = Add(acc.score, riskWeight(pattern.riskLevel))]
  ELSE acc

\* the body of the loop with the test matches.length === 1
LoopBodySingleMatch(pattern, matches, acc) ==
  IF Len(matches) = 1
  THEN [acc EXCEPT
          !.issues = Append(acc.issues,
                            DetectedIssue(pattern, Len(matches), matchedText(matches[1]))),
          !.score = Add(acc.score, riskWeight(pattern.riskLevel))]
  ELSE acc

\* the body of the loop without the test of matches: matches[0] of null
\* throws a TypeError
LoopBodyUnguarded(pattern, matches, acc) ==
  IF Len(matches) > 0
  THEN [acc EXCEPT
          !.issues = Append(acc.issues,
                            DetectedIssue(pattern, Len(matches), matchedText(matches[1]))),
          !.score = Add(acc.score, riskWeight(pattern.riskLevel))]
  ELSE [acc EXCEPT !.threw = TRUE]

\* the body of the loop: the accumulators (detectedIssues, riskScore) after
\* one rule, given the result of cleanText.match(pattern.pattern)
LoopBody(pattern, matches, acc) ==
  IF acc.threw THEN acc
  ELSE IF Len(matches) > 0
  THEN [acc EXCEPT
          !.issues = Append(acc.issues,
                            DetectedIssue(pattern, Len(matches), matchedText(matches[1]))),
          !.score = Add(acc.score, riskWeight(pattern.riskLevel))]
  ELSE acc

\* one turn of the loop: m is what cleanText.match(pattern.pattern) found
\* and left in the pattern object
LoopStep(clean, pattern, m, acc) ==
  LoopBody(pattern, MatchedStrings(clean, m.spans),
           [acc EXCEPT !.lastIndex[pattern.id] = m.lastIndex])

\* the loop over the registry, from rule i on
RECURSIVE MainLoop(_, _, _)
MainLoop(clean, i, acc) ==
  IF i > Len(LoopRules) THEN acc
  ELSE MainLoop(clean, i + 1,
                LoopStep(clean, LoopRules[i],
                         RegExpMatch(LoopRules[i].pattern, clean,
                                     acc.lastIndex[LoopRules[i].id]),
                         acc))

hasDisputeResolution(clean) == RegExpTest(DisputeResolutionPattern, clean)

\* indianLegalPatterns.find(p => p.id === 'missing_arbitration')
FindMissingArbitration ==
  LET found == {i \in 1..Len(indianLegalPatterns) :
                  indianLegalPatterns[i].id = "missing_arbitration"}
  IN IF found = {} THEN <<>>
     ELSE <<indianLegalPatterns[CHOOSE i \in found : \A j \in found : i <= j]>>

\* the special check adding nothing to the score
PostPassUnweighted(clean, acc) ==
  IF ~hasDisputeResolution(clean) /\ FindMissingArbitration # <<>>
  THEN [acc EXCEPT
          !.issues = Append(acc.issues,
                            DetectedIssue(FindMissingArbitration[1], 1, SyntheticExcerpt))]
  ELSE acc

\* the special check after the loop
PostPass(clean, acc) ==
  IF acc.threw THEN acc
  ELSE IF ~hasDisputeResolution(clean) /\ FindMissingArbitration # <<>>
  THEN [acc EXCEPT
          !.issues = Append(acc.issues,
                            DetectedIssue(FindMissingArbitration[1], 1, SyntheticExcerpt)),
          !.score = Add(acc.score, Literal(15))]
  ELSE acc

\* the returned object without the cap
AnalysisResultUncapped(score, issues) ==
  [riskScore |-> score, issues |-> issues, totalIssues |-> Len(issues)]

\* the returned object counting the rules instead of the entries
AnalysisResultCountingRules(score, issues) ==
  [riskScore |-> MathMin(score, Literal(100)),
   issues |-> issues,
   totalIssues |-> Cardinality({issues[i].id : i \in 1..Len(issues)})]

\* the returned object
AnalysisResult(score, issues) ==
  [riskScore |-> MathMin(score, Literal(100)),
   issues |-> issues,
   totalIssues |-> Len(issues)]

\* the locals at the return statement, the returned object and the
\* lastIndex left in the registry
Return(clean, acc) ==
  [cleanText |-> clean, detectedIssues |-> acc.issues, riskScore |-> acc.score,
   result |-> AnalysisResult(acc.score, acc.issues),
   threw |-> acc.threw, lastIndex |-> acc.lastIndex]

\* the loop, then the special check, on the cleaned text
Analyze(clean, env) ==
  Return(clean, PostPass(clean, MainLoop(clean, 1, Accumulators(env))))

\* a whole call
analyzeDocument(t, env) == Analyze(CleanText(t), env)

(***************************************************************************)
(* The documents of the model: up to MaxClauses clauses, concatenated.     *)
(***************************************************************************)
Clauses ==
  { "This agreement shall be governed by the laws of England. ",
    "The employer may terminate employment immediately without notice.",
    "unlimited liability and penalty. ",
    "governed by the law of the us; may terminate at will. ",
    "penalty of Rs 500. ",
    "disputes go to arbitration. ",
    "ARBITRATION in Delhi. ",
    "the courts of Delhi. ",
    "jurisdiction of Delhi courts. ",
    " \n" }

RECURSIVE Concat(_)
Concat(ws) == IF ws = <<>> THEN "" ELSE Head(ws) \o Concat(Tail(ws))

Documents ==
  {Concat(ws) : ws \in UNION {[1..n -> Clauses] : n \in 0..MaxClauses}}

\* the texts of the calls after the first
FollowingDocuments ==
  {Concat(ws) : ws \in UNION {[1..n -> Clauses] : n \in 0..(MaxClauses - 1)}}

NoResult == [riskScore |-> Zero, issues |-> <<>>, totalIssues |-> -1]

NoInvocations == <<>>

NoRequest == [route |-> "", content |-> "", wordCount |-> 0]

NoResponse == [status |-> 0, body |-> ""]

EmptyDb == [documents |-> <<>>, analyses |-> <<>>]

\* extractClausesFromText has not been called
NoClauses == clauses = <<>>

\* the upload component is not mounted
NoUploads ==
  /\ uploadedFiles = <<>>
  /\ processing = <<>>
  /\ nextId = 1
  /\ pdfJsLoaded = FALSE

\* ensureDefaultUser has not been called
NoUsers ==
  /\ users = {}
  /\ ensureCalls = <<>>
  /\ nodeEnv = "production"

\* no route has handled a request
NoRequests ==
  /\ request = NoRequest
  /\ response = NoResponse
  /\ events = <<>>
  /\ db = EmptyDb
  /\ handled = 0

(***************************************************************************)
(* The state machine: a caller holds a text and calls analyzeDocument.     *)
(***************************************************************************)
Init ==
  /\ text \in Documents
  /\ pc = "call"
  /\ cleanText = ""
  /\ detectedIssues = <<>>
  /\ riskScore = Zero
  /\ result = NoResult
  /\ lastIndex = InitialLastIndex
  /\ calls = 0
  /\ invocations = NoInvocations
  /\ NoRequests
  /\ NoClauses
  /\ NoUploads
  /\ NoUsers

\* one call of analyzeDocument(text), from entry to return
\* the state after a call that ran as `run`
Returns(run) ==
  /\ cleanText' = run.cleanText
  /\ detectedIssues' = run.detectedIssues
  /\ riskScore' = run.riskScore
  /\ result' = IF run.threw THEN NoResult ELSE run.result
  /\ lastIndex' = run.lastIndex
  /\ pc' = IF run.threw THEN "threw" ELSE "returned"

AnalyzeDocument ==
  /\ pc = "call"
  /\ Returns(analyzeDocument(text, Environment(lastIndex, <<>>, Zero)))
  /\ calls' = calls + 1
  /\ UNCHANGED <<text, invocations, requestVars, componentVars>>

\* the caller calls again, with any text; the locals of the call before are
\* gone, the registry is the same object
NextCall(t) ==
  /\ pc = "returned"
  /\ calls < MaxCalls
  /\ text' = t
  /\ pc' = "call"
  /\ cleanText' = ""
  /\ detectedIssues' = <<>>
  /\ riskScore' = Zero
  /\ result' = NoResult
  /\ UNCHANGED <<lastIndex, calls, invocations, requestVars, componentVars>>

Next ==
  \/ AnalyzeDocument
  \/ \E t \in FollowingDocuments : NextCall(t)

Spec == Init /\ [][Next]_vars

(***************************************************************************)
(* Several invocations of analyzeDocument in progress together.  Each has  *)
(* its own text, position, cleanText and accumulators; the registry's      *)
(* lastIndex is shared.  detectedIssues and riskScore hold the accumulators *)
(* as the latest step of any invocation left them: with lastIndex they are *)
(* the environment in which an invocation is entered.                      *)
(***************************************************************************)
Invocations == 1..MaxInvocations

ConcurrentTexts ==
  {"", "penalty. ", "unlimited liability; the courts of Delhi. "}

InProgress(n) == invocations[n].pc \in {"loop", "post", "return"}

Idle ==
  [text |-> "", pc |-> "idle", i |-> 0, cleanText |-> "",
   acc |-> Accumulators(FreshEnvironment), result |-> NoResult, overlapped |-> FALSE]

InitConcurrent ==
  /\ invocations = [n \in Invocations |-> Idle]
  /\ lastIndex = InitialLastIndex
  /\ detectedIssues = <<>>
  /\ riskScore = Zero
  /\ text = ""
  /\ pc = "idle"
  /\ cleanText = ""
  /\ result = NoResult
  /\ calls = 0
  /\ NoRequests
  /\ NoClauses
  /\ NoUploads
  /\ NoUsers

\* what a step of invocation n that leaves it as `inv` leaves behind
Leaves(n, inv) ==
  /\ invocations' = [invocations EXCEPT ![n] = inv]
  /\ lastIndex' = inv.acc.lastIndex
  /\ detectedIssues' = inv.acc.issues
  /\ riskScore' = inv.acc.score
  /\ UNCHANGED <<callVars, requestVars, componentVars>>

\* lines 81-86: invocation n is entered with text t
Enter(n, t) ==
  /\ invocations[n].pc = "idle"
  /\ invocations' =
       [m \in Invocations |->
          IF m = n
          THEN [text |-> t, pc |-> "loop", i |-> 1, cleanText |-> CleanText(t),
                acc |-> Accumulators(Environment(lastIndex, detectedIssues, riskScore)),
                result |-> NoResult,
                overlapped |-> \E k \in Invocations : InProgress(k)]
          ELSE IF InProgress(m) THEN [invocations[m] EXCEPT !.overlapped = TRUE]
          ELSE invocations[m]]
  /\ detectedIssues' = Accumulators(Environment(lastIndex, detectedIssues, riskScore)).issues
  /\ riskScore' = Accumulators(Environment(lastIndex, detectedIssues, riskScore)).score
  /\ UNCHANGED <<lastIndex, callVars, requestVars, componentVars>>

\* the invocation after an iteration of the loop that left the accumulators acc
Iterated(inv, acc) ==
  [inv EXCEPT !.acc = acc,
              !.i = inv.i + 1,
              !.pc = IF acc.threw THEN "threw"
                     ELSE IF inv.i = Len(LoopRules) THEN "post" ELSE "loop"]

\* lines 88-103: one iteration of the loop of invocation n
LoopIteration(n) ==
  /\ invocations[n].pc = "loop"
  /\ Leaves(n, Iterated(invocations[n],
                        LoopStep(invocations[n].cleanText,
                                 LoopRules[invocations[n].i],
                                 RegExpMatch(LoopRules[invocations[n].i].pattern,
                                             invocations[n].cleanText,
                                             lastIndex[LoopRules[invocations[n].i].id]),
                                 [invocations[n].acc EXCEPT !.lastIndex = lastIndex])))

\* lines 105-117: the special check of invocation n
SpecialCheck(n) ==
  /\ invocations[n].pc = "post"
  /\ Leaves(n, [invocations[n] EXCEPT
                  !.acc = PostPass(invocations[n].cleanText,
                                   [invocations[n].acc EXCEPT !.lastIndex = lastIndex]),
                  !.pc = "return"])

\* lines 119-123: invocation n returns
ReturnResult(n) ==
  /\ invocations[n].pc = "return"
  /\ invocations' =
       [invocations EXCEPT
          ![n].result = AnalysisResult(invocations[n].acc.score, invocations[n].acc.issues),
          ![n].pc = "done"]
  /\ UNCHANGED <<lastIndex, detectedIssues, riskScore, callVars, requestVars, componentVars>>

NextConcurrent ==
  \E n \in Invocations :
    \/ \E t \in ConcurrentTexts : Enter(n, t)
    \/ LoopIteration(n)
    \/ SpecialCheck(n)
    \/ ReturnResult(n)

SpecConcurrent == InitConcurrent /\ [][NextConcurrent]_vars

(***************************************************************************)
(* extractClausesFromText of the clause analyzer.                          *)
(***************************************************************************)
Digits == "0123456789"

DigitChars == {CharAt(Digits, i) : i \in 1..Len(Digits)}

LetterChars == DOMAIN LowerOf \cup DOMAIN UpperOf

\* the class \w
WordChars == LetterChars \cup DigitChars \cup {"_"}

\* the character at p is of the class
InClass(s, p, class) == p >= 1 /\ p <= Len(s) /\ CharAt(s, p) \in class

\* the assertion \b at p
WordBoundary(s, p) == InClass(s, p - 1, WordChars) # InClass(s, p, WordChars)

\* the end of the run of characters of the class that starts at p: the first
\* position from p on that is not of the class
RunEnd(s, p, class) ==
  Least({j \in p..Len(s) : CharAt(s, j) \notin class} \cup {Len(s) + 1})

\* \d+\. at p
NumberedAt(s, p) ==
  /\ InClass(s, p, DigitChars)
  /\ InClass(s, RunEnd(s, p, DigitChars), {"."})

SectionWords == <<"article", "section", "clause", "para", "paragraph">>

\* \b(?:ARTICLE|SECTION|CLAUSE|PARA|PARAGRAPH)\s+\d+ at p, letters of any case
SectionWordAt(s, p) ==
  /\ InClass(s, p, LetterChars)
  /\ WordBoundary(s, p)
  /\ \E k \in 1..Len(SectionWords) :
       /\ p + Len(SectionWords[k]) <= Len(s)
       /\ CanonicalizeString(SubSeq(s, p, p + Len(SectionWords[k]) - 1)) = SectionWords[k]
       /\ InClass(s, p + Len(SectionWords[k]), WhiteSpace)
       /\ InClass(s, RunEnd(s, p + Len(SectionWords[k]), WhiteSpace), DigitChars)

\* the {10,} of the heading pattern
HeadingRun == 10

\* \b[A-Z][A-Z\s]{10,}: at p, letters of any case
HeadingAt(s, p) ==
  /\ InClass(s, p, LetterChars)
  /\ WordBoundary(s, p)
  /\ InClass(s, p + HeadingRun, LetterChars \cup WhiteSpace)
  /\ RunEnd(s, p + 1, LetterChars \cup WhiteSpace) >= p + 1 + HeadingRun
  /\ InClass(s, RunEnd(s, p + 1, LetterChars \cup WhiteSpace), {":"})

\* the lookahead of the split pattern holds at p
SplitsAt(s, p) == NumberedAt(s, p) \/ SectionWordAt(s, p) \/ HeadingAt(s, p)

\* the pieces of s from p on, cut at the positions of cuts
RECURSIVE SectionsFrom(_, _, _)
SectionsFrom(s, p, cuts) ==
  IF cuts = {} THEN <<SubSeq(s, p, Len(s))>>
  ELSE <<SubSeq(s, p, Least(cuts) - 1)>>
         \o SectionsFrom(s, Least(cuts), cuts \ {Least(cuts)})

\* text.split(/(?=...)/gi): an empty match splits nowhere before the first
\* character
Split(s) == SectionsFrom(s, 1, {p \in 2..Len(s) : SplitsAt(s, p)})

\* String.prototype.trim
Trim(s) ==
  IF \A i \in 1..Len(s) : CharAt(s, i) \in WhiteSpace THEN ""
  ELSE SubSeq(s, Least({i \in 1..Len(s) : CharAt(s, i) \notin WhiteSpace}),
                 Greatest({i \in 1..Len(s) : CharAt(s, i) \notin WhiteSpace}))

clausePatterns ==
  << [tag |-> "bond_clause",
      keywords |-> <<"bond", "service period", "minimum period", "training bond", "lock-in">>],
     [tag |-> "termination_clause",
      keywords |-> <<"termination", "resignation", "notice period", "employment end">>],
     [tag |-> "compensation_clause",
      keywords |-> <<"salary", "compensation", "remuneration", "payment", "wages">>],
     [tag |-> "confidentiality_clause",
      keywords |-> <<"confidential", "non-disclosure", "proprietary", "secret">>],
     [tag |-> "non_compete_clause",
      keywords |-> <<"non-compete", "competition", "competing business", "restraint of trade">>],
     [tag |-> "rent_clause",
      keywords |-> <<"rent", "rental", "monthly payment", "lease payment">>],
     [tag |-> "security_deposit_clause",
      keywords |-> <<"security deposit", "advance", "refundable deposit">>],
     [tag |-> "maintenance_clause",
      keywords |-> <<"maintenance", "repairs", "upkeep", "utilities">>],
     [tag |-> "eviction_clause",
      keywords |-> <<"eviction", "termination of tenancy", "vacation">>],
     [tag |-> "payment_clause",
      keywords |-> <<"payment", "fees", "cost", "price", "invoice">>],
     [tag |-> "delivery_clause",
      keywords |-> <<"delivery", "completion", "timeline", "deadline">>],
     [tag |-> "warranty_clause",
      keywords |-> <<"warranty", "guarantee", "defects", "quality">>],
     [tag |-> "liability_clause",
      keywords |-> <<"liability", "responsibility", "damages", "indemnity">>],
     [tag |-> "interest_clause",
      keywords |-> <<"interest", "rate", "APR", "finance charge">>],
     [tag |-> "repayment_clause",
      keywords |-> <<"repayment", "EMI", "installment", "due date">>],
     [tag |-> "default_clause",
      keywords |-> <<"default", "breach", "non-payment", "penalty">>],
     [tag |-> "collateral_clause",
      keywords |-> <<"collateral", "security", "pledge", "mortgage">>],
     [tag |-> "penalty_clause",
      keywords |-> <<"penalty", "liquidated damages", "breach penalty", "fine">>],
     [tag |-> "dispute_clause",
      keywords |-> <<"dispute", "arbitration", "jurisdiction", "court">>],
     [tag |-> "force_majeure_clause",
      keywords |-> <<"force majeure", "act of god", "unforeseen circumstances">>],
     [tag |-> "amendment_clause",
      keywords |-> <<"amendment", "modification", "change", "variation">>] >>

\* pattern.keywords.some(keyword => lower.includes(keyword.toLowerCase()))
HasKeyword(lower, k) ==
  \E j \in 1..Len(clausePatterns[k].keywords) :
    Includes(lower, ToLowerCase(clausePatterns[k].keywords[j]))

\* the tag of the first pattern with a keyword in the section
TagOf(lower) ==
  IF \E k \in 1..Len(clausePatterns) : HasKeyword(lower, k)
  THEN clausePatterns[Least({k \in 1..Len(clausePatterns) : HasKeyword(lower, k)})].tag
  ELSE "general_clause"

\* trimmed.split('\n')[0]
FirstLine(trimmed) ==
  SubSeq(trimmed, 1,
         Least({j \in 1..Len(trimmed) : CharAt(trimmed, j) = "\n"}
                 \cup {Len(trimmed) + 1}) - 1)

\* heading.replace(/^\d+\.?\s*/, '')
WithoutNumber(heading) ==
  IF ~InClass(heading, 1, DigitChars) THEN heading
  ELSE IF InClass(heading, RunEnd(heading, 1, DigitChars), {"."})
  THEN SubSeq(heading, RunEnd(heading, RunEnd(heading, 1, DigitChars) + 1, WhiteSpace),
              Len(heading))
  ELSE SubSeq(heading, RunEnd(heading, RunEnd(heading, 1, DigitChars), WhiteSpace),
              Len(heading))

OrUntitled(heading) == IF heading = "" THEN "Untitled Clause" ELSE heading

\* lines 495-513: the clause of a section, already trimmed
ClauseOf(trimmed) ==
  [tag |-> TagOf(ToLowerCase(trimmed)),
   heading |-> WithoutNumber(OrUntitled(Trim(FirstLine(trimmed)))),
   text |-> trimmed]

MinimumSectionLength == 50

MaxClauseText == 2000

\* lines 491-514: the clauses of the sections from i on
RECURSIVE ClausesFrom(_, _)
ClausesFrom(sections, i) ==
  IF i > Len(sections) THEN <<>>
  ELSE IF Len(Trim(sections[i])) < MinimumSectionLength THEN ClausesFrom(sections, i + 1)
  ELSE <<ClauseOf(Trim(sections[i]))>> \o ClausesFrom(sections, i + 1)

\* the whole text as the clause
FullDocumentUncut(t) ==
  [tag |-> "full_document", heading |-> "Complete Document", text |-> t]

FullDocument(t) ==
  [tag |-> "full_document", heading |-> "Complete Document",
   text |-> Substring0(t, MaxClauseText) \o (IF Len(t) > MaxClauseText THEN "..." ELSE "")]

\* line 516
OrFullDocument(found, t) == IF Len(found) > 0 THEN found ELSE <<FullDocument(t)>>

extractClausesFromText(t) == OrFullDocument(ClausesFrom(Split(t), 1), t)

\* number of pieces a text given to extractClausesFromText is assembled from
MaxSections == 2

\* String.prototype.repeat, by halves
RECURSIVE Repeat(_, _)
Repeat(c, n) ==
  IF n = 0 THEN ""
  ELSE IF n = 1 THEN c
  ELSE Repeat(c, n \div 2) \o Repeat(c, n - n \div 2)

\* pieces of texts: numbered and headed sections shorter and longer than
\* MinimumSectionLength, blank space of half of MaxClauseText, with and
\* without a full stop behind it
SectionPieces ==
  { "1. Termination: notice of 30 days. ",
    "2. The tenant pays the rent monthly and keeps the premises in good repair.\n",
    "SECTION 3 fees are due on invoice; CONFIDENTIAL INFORMATION: none is shared by the parties. ",
    "12. x",
    " \n",
    Repeat(" ", MaxClauseText \div 2),
    Repeat(" ", MaxClauseText \div 2) \o "." }

ClauseTexts ==
  {Concat(ws) : ws \in UNION {[1..n -> SectionPieces] : n \in 0..MaxSections}}

InitClauses ==
  /\ text \in ClauseTexts
  /\ pc = "call"
  /\ clauses = <<>>
  /\ cleanText = ""
  /\ detectedIssues = <<>>
  /\ riskScore = Zero
  /\ result = NoResult
  /\ lastIndex = InitialLastIndex
  /\ calls = 0
  /\ invocations = NoInvocations
  /\ NoRequests
  /\ NoUploads
  /\ NoUsers

\* one call of extractClausesFromText(text)
ExtractClauses ==
  /\ pc = "call"
  /\ clauses' = extractClausesFromText(text)
  /\ pc' = "returned"
  /\ UNCHANGED <<text, cleanText, detectedIssues, riskScore, result, lastIndex, calls,
                 invocations, requestVars, uploadVars, userVars>>

NextClauses == ExtractClauses

SpecClauses == InitClauses /\ [][NextClauses]_vars

(***************************************************************************)
(* The routes POST /api/analyze and POST /api/upload.  A request is handled *)
(* in one step; events lists, in order, the calls of the handler that the  *)
(* properties speak of.                                                    *)
(***************************************************************************)
\* value.split(/\s+/).filter(word => word.length > 0).length
WordCount(s) ==
  Cardinality({i \in 1..Len(s) :
                 /\ CharAt(s, i) \notin WhiteSpace
                 /\ (i = 1 \/ CharAt(s, i - 1) \in WhiteSpace)})

\* content.trim().length === 0
TrimmedIsEmpty(s) == \A i \in 1..Len(s) : CharAt(s, i) \in WhiteSpace

MinimumWords == 10

MaxFileSize == 5 * 1024 * 1024

Pdf == "application/pdf"

Docx == "application/vnd.openxmlformats-officedocument.wordprocessingml.document"

Doc == "application/msword"

isSupportedFileType(mimeType) == mimeType \in {Pdf, Docx, Doc}

validateFileSize(fileSize) == fileSize <= MaxFileSize

\* the texts of the requests: empty, blank, three words, twelve words
RequestTexts ==
  { "", " \n", "penalty of Rs. ",
    "The employer may terminate employment immediately without notice and without any cause." }

\* the bodies of POST /api/analyze; wordCount is what the client says
AnalyzeBodies == [content : RequestTexts, wordCount : {3, 12}]

NoFile == [type |-> "", size |-> 0, text |-> ""]

\* the uploaded files: type, size and the text of the document in them
Files ==
  [type : {Docx}, size : {MaxFileSize}, text : RequestTexts]
    \cup [type : {Doc, Pdf, "text/plain"}, size : {1024}, text : {"penalty of Rs. "}]
    \cup [type : {Docx}, size : {MaxFileSize + 1}, text : {"penalty of Rs. "}]

\* the operation of prisma that rejects during a request, if any
Failures == {"none", "document.create", "analysis.create"}

Respond(status, body) == [status |-> status, body |-> body]

Outcome(resp, evs, database, li) ==
  [response |-> resp, events |-> evs, db |-> database, lastIndex |-> li]

DocumentRecord(content, mimeType, wordCount) ==
  [content |-> content, mimeType |-> mimeType, wordCount |-> wordCount]

\* the decimal digits of a natural number
RECURSIVE NumberToString(_)
NumberToString(n) ==
  IF n < 10 THEN CharAt(Digits, n + 1)
  ELSE NumberToString(n \div 10) \o CharAt(Digits, (n % 10) + 1)

\* JSON.stringify of a character of a string
QuotedChar(c) == IF c \in {"\"", "\\"} THEN "\\" \o c ELSE c

RECURSIVE QuoteRange(_, _, _)
QuoteRange(s, a, b) ==
  IF a > b THEN ""
  ELSE IF a = b THEN QuotedChar(CharAt(s, a))
  ELSE QuoteRange(s, a, (a + b) \div 2) \o QuoteRange(s, (a + b) \div 2 + 1, b)

\* JSON.stringify of a string
JsonString(s) == "\"" \o QuoteRange(s, 1, Len(s)) \o "\""

RECURSIVE JoinFrom(_, _)
JoinFrom(items, i) ==
  IF i > Len(items) THEN ""
  ELSE IF i = Len(items) THEN items[i]
  ELSE items[i] \o "," \o JoinFrom(items, i + 1)

\* JSON.stringify of an array whose elements are serialized in items
JsonArray(items) == "[" \o JoinFrom(items, 1) \o "]"

\* JSON.stringify of a DetectedIssue, its properties in the order of the
\* spread {...pattern, matches, matchedText}; a RegExp serializes as {}
JsonIssue(issue) ==
  "{\"id\":" \o JsonString(issue.id)
    \o ",\"pattern\":{}"
    \o ",\"riskLevel\":" \o JsonString(issue.riskLevel)
    \o ",\"category\":" \o JsonString(issue.category)
    \o ",\"matches\":" \o NumberToString(issue.matches)
    \o ",\"matchedText\":" \o JsonString(issue.matchedText) \o "}"

\* JSON.stringify(analysisResult.issues)
StringifyIssues(issues) ==
  JsonArray([i \in 1..Len(issues) |-> JsonIssue(issues[i])])

AnalysisRecord(documentId, riskScoreOf, totalIssues, issues) ==
  [documentId |-> documentId, riskScore |-> riskScoreOf, totalIssues |-> totalIssues,
   issues |-> issues, status |-> "completed"]

WithDocument(database, doc) ==
  [database EXCEPT !.documents = Append(database.documents, doc)]

WithAnalysis(database, analysis) ==
  [database EXCEPT !.analyses = Append(database.analyses, analysis)]

\* analyze/route.ts lines 42-85: analysisResult is in `run`
AnalyzeAndSave(body, run, failure, database) ==
  IF run.threw
  THEN Outcome(Respond(500, "Analysis failed"), <<"analyzeDocument">>, database,
               run.lastIndex)
  ELSE IF failure = "document.create"
  THEN Outcome(Respond(500, failure), <<"analyzeDocument", "document.create">>,
               database, run.lastIndex)
  ELSE IF failure = "analysis.create"
  THEN Outcome(Respond(500, failure),
               <<"analyzeDocument", "document.create", "analysis.create">>,
               WithDocument(database,
                            DocumentRecord(body.content, "text/plain", body.wordCount)),
               run.lastIndex)
  ELSE Outcome(Respond(200, "success"),
               <<"analyzeDocument", "document.create", "analysis.create">>,
               WithAnalysis(
                 WithDocument(database,
                              DocumentRecord(body.content, "text/plain", body.wordCount)),
                 AnalysisRecord(Len(database.documents) + 1, run.result.riskScore,
                                Len(run.result.issues),
                                StringifyIssues(run.result.issues))),
               run.lastIndex)

\* analyze/route.ts lines 13-96
AnalyzeRoute(body, failure, database, li) ==
  IF body.content = "" \/ TrimmedIsEmpty(body.content)
  THEN Outcome(Respond(400, "No text content provided for analysis"), <<>>, database, li)
  ELSE IF body.wordCount < MinimumWords
  THEN Outcome(Respond(400, "Document too short for meaningful analysis (minimum 10 words required)"),
               <<>>, database, li)
  ELSE AnalyzeAndSave(body, analyzeDocument(body.content, Environment(li, <<>>, Zero)),
                      failure, database)

\* text-extractor.ts lines 11-27; the text of a Word file is the one mammoth
\* extracts
extractTextFromFile(file) ==
  IF Includes(file.type, "wordprocessingml") \/ Includes(file.type, "msword")
  THEN [threw |-> FALSE, content |-> file.text, wordCount |-> WordCount(file.text)]
  ELSE [threw |-> TRUE, content |-> "", wordCount |-> 0]

\* upload/route.ts lines 76-105: the document is saved, analysisResult is in
\* `run`
UploadAnalyzeAndSave(run, failure, database) ==
  IF run.threw
  THEN Outcome(Respond(500, "Upload and analysis failed"),
               <<"writeFile", "extractTextFromFile", "document.create", "analyzeDocument">>,
               database, run.lastIndex)
  ELSE IF failure = "analysis.create"
  THEN Outcome(Respond(500, failure),
               <<"writeFile", "extractTextFromFile", "document.create", "analyzeDocument",
                 "analysis.create">>,
               database, run.lastIndex)
  ELSE Outcome(Respond(200, "success"),
               <<"writeFile", "extractTextFromFile", "document.create", "analyzeDocument",
                 "analysis.create">>,
               WithAnalysis(database,
                            AnalysisRecord(Len(database.documents), run.result.riskScore,
                                           run.result.totalIssues,
                                           StringifyIssues(run.result.issues))),
               run.lastIndex)

\* upload/route.ts lines 51-105: the file is saved
ExtractAndSave(file, extractedText, failure, database, li) ==
  IF extractedText.threw
  THEN Outcome(Respond(500, "Failed to extract text from file: Unsupported file type"),
               <<"writeFile", "extractTextFromFile">>, database, li)
  ELSE IF failure = "document.create"
  THEN Outcome(Respond(500, failure),
               <<"writeFile", "extractTextFromFile", "document.create">>, database, li)
  ELSE UploadAnalyzeAndSave(
         analyzeDocument(extractedText.content, Environment(li, <<>>, Zero)),
         failure,
         WithDocument(database,
                      DocumentRecord(extractedText.content, file.type,
                                     extractedText.wordCount)))

\* upload/route.ts lines 9-114
UploadRoute(file, failure, database, li) ==
  IF file = NoFile
  THEN Outcome(Respond(400, "No file uploaded"), <<>>, database, li)
  ELSE IF ~isSupportedFileType(file.type)
  THEN Outcome(Respond(400, "Unsupported file type. Please upload PDF or DOCX files only."),
               <<>>, database, li)
  ELSE IF ~validateFileSize(file.size)
  THEN Outcome(Respond(400, "File too large. Maximum size is 5MB."), <<>>, database, li)
  ELSE ExtractAndSave(file, extractTextFromFile(file), failure, database, li)

\* the bodies of POST /api/analyze-clauses: facts says whether name, role and
\* situation are all given; documentId 0 and content "" stand for absent
ClauseBodies ==
  [facts : {TRUE}, content : {""}, documentId : 0..MaxRequests]
    \cup {[facts |-> FALSE, content |-> "", documentId |-> 1],
          [facts |-> TRUE, content |-> "penalty of Rs. ", documentId |-> 0]}

\* what the Gemini model answers: nothing that holds JSON, or the parsed
\* JSON with its overallRiskScore and the favorability of each analysis
NoGemini == [ok |-> FALSE, overallRiskScore |-> Zero, analyses |-> <<>>]

GeminiResponses ==
  { NoGemini,
    [ok |-> TRUE, overallRiskScore |-> Literal(50),
     analyses |-> <<"unfavorable", "favorable">>],
    [ok |-> TRUE, overallRiskScore |-> Literal(150), analyses |-> <<"unfavorable">>] }

\* analyses.filter(a => a.favorability === favorability).length
CountOf(analyses, favorability) ==
  Cardinality({i \in 1..Len(analyses) : analyses[i] = favorability})

\* clause-analyzer.ts lines 300-354
analyzeClausesWithFacts(parsedClauses, gemini) ==
  IF Len(parsedClauses) = 0 \/ ~gemini.ok
  THEN [threw |-> TRUE, analyses |-> <<>>, overallRiskScore |-> Zero]
  ELSE [threw |-> FALSE, analyses |-> gemini.analyses,
        overallRiskScore |-> gemini.overallRiskScore]

\* JSON.stringify of one ClauseAnalysisResult, by its favorability
JsonAnalysis(favorability) == "{\"favorability\":" \o JsonString(favorability) \o "}"

\* part_002 lines 170-177: JSON.stringify of the object saved as issues;
\* recommendations and keyFindings are absent from the answer
StringifyFactAware(analyses) ==
  "{\"factAwareAnalysis\":"
    \o JsonArray([i \in 1..Len(analyses) |-> JsonAnalysis(analyses[i])])
    \o ",\"summary\":{\"favorableClauses\":"
    \o NumberToString(CountOf(analyses, "favorable"))
    \o ",\"unfavorableClauses\":" \o NumberToString(CountOf(analyses, "unfavorable"))
    \o ",\"neutralClauses\":" \o NumberToString(CountOf(analyses, "neutral")) \o "}"
    \o ",\"documentClassification\":{\"documentType\":\"general\"}"
    \o ",\"userFacts\":{\"name\":\"A\",\"role\":\"tenant\",\"situation\":\"lease\"}}"

\* the positions of the analyses of a document
AnalysesOf(database, documentId) ==
  {i \in 1..Len(database.analyses) : database.analyses[i].documentId = documentId}

\* prisma.analysis.update with analysisData
UpdateAnalysis(database, documentId, analysisData) ==
  [database EXCEPT !.analyses =
     [i \in 1..Len(database.analyses) |->
        IF database.analyses[i].documentId = documentId
        THEN analysisData
        ELSE database.analyses[i]]]

\* part_002 lines 165-196: the analysis is saved for the document
SaveClauseAnalysis(documentId, analysisData, failure, database, li) ==
  IF AnalysesOf(database, documentId) # {}
  THEN Outcome(Respond(200, "success"),
               <<"extractClausesFromText", "analyzeClausesWithFacts", "analysis.update">>,
               UpdateAnalysis(database, documentId, analysisData), li)
  ELSE IF failure = "analysis.create"
  THEN Outcome(Respond(500, failure),
               <<"extractClausesFromText", "analyzeClausesWithFacts", "analysis.create">>,
               database, li)
  ELSE Outcome(Respond(200, "success"),
               <<"extractClausesFromText", "analyzeClausesWithFacts", "analysis.create">>,
               WithAnalysis(database, analysisData), li)

\* part_002 lines 149-205: documentId 0 when there is no document
AnalyzeClausesAndSave(documentId, parsedClauses, analysisResult, failure, database, li) ==
  IF Len(parsedClauses) = 0
  THEN Outcome(Respond(400, "No clauses could be extracted for analysis"),
               <<"extractClausesFromText">>, database, li)
  ELSE IF analysisResult.threw
  THEN Outcome(Respond(500, "Clause analysis failed"),
               <<"extractClausesFromText", "analyzeClausesWithFacts">>, database, li)
  ELSE IF documentId = 0
  THEN Outcome(Respond(200, "success"),
               <<"extractClausesFromText", "analyzeClausesWithFacts">>, database, li)
  ELSE SaveClauseAnalysis(
         documentId,
         AnalysisRecord(documentId, analysisResult.overallRiskScore,
                        CountOf(analysisResult.analyses, "unfavorable"),
                        StringifyFactAware(analysisResult.analyses)),
         failure, database, li)

\* part_002 lines 76-147: the clauses of the content or of the document
ClausesOfRequest(body, documentId, content, gemini, failure, database, li) ==
  AnalyzeClausesAndSave(documentId, extractClausesFromText(content),
                        analyzeClausesWithFacts(extractClausesFromText(content), gemini),
                        failure, database, li)

\* part_002 lines 27-215, the clause analysis
AnalyzeClausesRoute(body, gemini, failure, database, li) ==
  IF ~body.facts
  THEN Outcome(Respond(400, "User facts with name are required"), <<>>, database, li)
  ELSE IF body.content # ""
  THEN ClausesOfRequest(body, 0, body.content, gemini, failure, database, li)
  ELSE IF body.documentId # 0
  THEN IF body.documentId \notin 1..Len(database.documents)
       THEN Outcome(Respond(404, "Document not found"), <<"document.findUnique">>,
                    database, li)
       ELSE ClausesOfRequest(body, body.documentId,
                             database.documents[body.documentId].content,
                             gemini, failure, database, li)
  ELSE Outcome(Respond(400, "Either documentId, content, or clauses must be provided"),
               <<>>, database, li)

\* the risk parameters of GET /api/documents; "" when absent
RiskFilters == {"", "high", "medium", "low", "all"}

\* d.analysis of the document with this id
AnalysisOf(database, id) ==
  database.analyses[CHOOSE i \in AnalysesOf(database, id) : TRUE]

\* stats.filter(d => d.analysis)
Analyzed(database) ==
  {id \in 1..Len(database.documents) : AnalysesOf(database, id) # {}}

\* d.analysis.riskScore > 0.3 && d.analysis.riskScore <= 0.7, with >= for >
MediumRiskFromBoundary(score) == ~Less(score, Literal(30)) /\ ~Less(Literal(70), score)

\* part_002 lines 406-408
HighRisk(score) == Less(Literal(70), score)

MediumRisk(score) == Less(Literal(30), score) /\ ~Less(Literal(70), score)

LowRisk(score) == ~Less(Literal(30), score)

\* part_002 lines 363-377: where.analysis
WhereAnalysis(riskFilter, score) ==
  IF riskFilter = "high" THEN Less(Literal(70), score)
  ELSE IF riskFilter = "medium" THEN Less(Literal(30), score) /\ ~Less(Literal(70), score)
  ELSE ~Less(Literal(30), score)

\* the documents the where clause selects
Where(riskFilter, database) ==
  IF riskFilter \in {"high", "medium", "low"}
  THEN {id \in Analyzed(database) :
          WhereAnalysis(riskFilter, AnalysisOf(database, id).riskScore)}
  ELSE 1..Len(database.documents)

\* part_002 lines 403-412
Statistics(database) ==
  [total |-> Len(database.documents),
   analyzed |-> Cardinality(Analyzed(database)),
   highRisk |-> Cardinality({id \in Analyzed(database) :
                               HighRisk(AnalysisOf(database, id).riskScore)}),
   mediumRisk |-> Cardinality({id \in Analyzed(database) :
                                 MediumRisk(AnalysisOf(database, id).riskScore)}),
   lowRisk |-> Cardinality({id \in Analyzed(database) :
                              LowRisk(AnalysisOf(database, id).riskScore)})]

\* part_002 lines 343-431, with the default page and limit and no search
DocumentsRoute(riskFilter, database, li) ==
  Outcome([status |-> 200, body |-> "success",
           total |-> Cardinality(Where(riskFilter, database)),
           statistics |-> Statistics(database)],
          <<"document.findMany", "document.count", "document.findMany">>,
          database, li)

InitRequests ==
  /\ NoRequests
  /\ NoClauses
  /\ NoUploads
  /\ NoUsers
  /\ lastIndex = InitialLastIndex
  /\ invocations = NoInvocations
  /\ text = ""
  /\ pc = "idle"
  /\ cleanText = ""
  /\ detectedIssues = <<>>
  /\ riskScore = Zero
  /\ result = NoResult
  /\ calls = 0

\* the state after a route handled the request req with the outcome out
Handles(req, out) ==
  /\ handled' = handled + 1
  /\ request' = req
  /\ response' = out.response
  /\ events' = out.events
  /\ db' = out.db
  /\ lastIndex' = out.lastIndex
  /\ UNCHANGED <<callVars, detectedIssues, riskScore, invocations, componentVars>>

PostAnalyze(body, failure) ==
  /\ handled < MaxRequests
  /\ Handles([route |-> "/api/analyze", content |-> body.content,
              wordCount |-> body.wordCount],
             AnalyzeRoute(body, failure, db, lastIndex))

\* the request of an upload holds the text and the word count the route has
\* once the text is extracted
PostUpload(file, failure) ==
  /\ handled < MaxRequests
  /\ Handles([route |-> "/api/upload", content |-> file.text,
              wordCount |-> WordCount(file.text), mimeType |-> file.type,
              size |-> file.size],
             UploadRoute(file, failure, db, lastIndex))

PostAnalyzeClauses(body, gemini, failure) ==
  /\ handled < MaxRequests
  /\ Handles([route |-> "/api/analyze-clauses", content |-> body.content,
              wordCount |-> 0],
             AnalyzeClausesRoute(body, gemini, failure, db, lastIndex))

GetDocuments(riskFilter) ==
  /\ handled < MaxRequests
  /\ Handles([route |-> "/api/documents", content |-> "", wordCount |-> 0,
              risk |-> riskFilter],
             DocumentsRoute(riskFilter, db, lastIndex))

NextRequests ==
  \/ \E failure \in Failures :
       \/ \E body \in AnalyzeBodies : PostAnalyze(body, failure)
       \/ \E file \in Files \cup {NoFile} : PostUpload(file, failure)
       \/ \E body \in ClauseBodies, gemini \in GeminiResponses :
            PostAnalyzeClauses(body, gemini, failure)
  \/ \E riskFilter \in RiskFilters : GetDocuments(riskFilter)

SpecRequests == InitRequests /\ [][NextRequests]_vars

(***************************************************************************)
(* ensureDefaultUser, called by requests that are served at the same time. *)
(* Each await is a step: $connect, user.findFirst, user.create.  The       *)
(* database is reachable; User.email is unique.                            *)
(***************************************************************************)
\* number of calls of ensureDefaultUser in progress together
MaxUserCalls == 3

UserCalls == 1..MaxUserCalls

DefaultEmail == "mvp@legal-analyzer.com"

NoUser == [id |-> "", email |-> ""]

\* db.ts lines 60-66
MockUser == [id |-> "dev-user", email |-> DefaultEmail]

\* a call that has not started
NoUserCall == [pc |-> "idle", defaultUser |-> NoUser, returned |-> NoUser]

\* the rows where: { email }
UsersWithEmail(rows, email) == {u \in rows : u.email = email}

\* the state where every check of the database finds no default user
InitUsers ==
  /\ users = {}
  /\ ensureCalls = [c \in UserCalls |-> NoUserCall]
  /\ nodeEnv \in {"production", "development"}
  /\ NoRequests
  /\ NoClauses
  /\ NoUploads
  /\ lastIndex = InitialLastIndex
  /\ invocations = NoInvocations
  /\ text = ""
  /\ pc = "idle"
  /\ cleanText = ""
  /\ detectedIssues = <<>>
  /\ riskScore = Zero
  /\ result = NoResult
  /\ calls = 0

\* what a step of call c leaves alone
UserStep(c, call, rows) ==
  /\ ensureCalls' = [ensureCalls EXCEPT ![c] = call]
  /\ users' = rows
  /\ UNCHANGED <<nodeEnv, callVars, detectedIssues, riskScore, lastIndex, invocations,
                 requestVars, clauseVars, uploadVars>>

\* db.ts line 32: a request calls ensureDefaultUser
CallEnsureDefaultUser(c) ==
  /\ ensureCalls[c].pc = "idle"
  /\ UserStep(c, [ensureCalls[c] EXCEPT !.pc = "connect"], users)

\* db.ts line 35
Connect(c) ==
  /\ ensureCalls[c].pc = "connect"
  /\ UserStep(c, [ensureCalls[c] EXCEPT !.pc = "findFirst"], users)

\* db.ts lines 37-41, 50
FindFirst(c) ==
  /\ ensureCalls[c].pc = "findFirst"
  /\ IF UsersWithEmail(users, DefaultEmail) = {}
     THEN UserStep(c, [ensureCalls[c] EXCEPT !.pc = "create"], users)
     ELSE \E u \in UsersWithEmail(users, DefaultEmail) :
            UserStep(c, [pc |-> "returned", defaultUser |-> u, returned |-> u], users)

\* db.ts lines 51-67: the catch block
Catch(c) ==
  IF nodeEnv = "production"
  THEN [ensureCalls[c] EXCEPT !.pc = "threw"]
  ELSE [ensureCalls[c] EXCEPT !.pc = "returned", !.returned = MockUser]

\* the row user.create inserts; the id is the cuid of the call
CreatedUser(c) == [id |-> "cuid" \o NumberToString(c), email |-> DefaultEmail]

\* db.ts lines 42-47; the unique index on email rejects a second row
Create(c) ==
  /\ ensureCalls[c].pc = "create"
  /\ IF UsersWithEmail(users, DefaultEmail) # {}
     THEN UserStep(c, Catch(c), users)
     ELSE UserStep(c, [ensureCalls[c] EXCEPT !.pc = "returned",
                                             !.returned = CreatedUser(c)],
                   users \cup {CreatedUser(c)})

NextUsers ==
  \E c \in UserCalls :
    \/ CallEnsureDefaultUser(c)
    \/ Connect(c)
    \/ FindFirst(c)
    \/ Create(c)

SpecUsers == InitUsers /\ [][NextUsers]_vars

(***************************************************************************)
(* The upload component.  uploadedFiles is the React state; an updater     *)
(* given to setUploadedFiles is applied to the list as it is then.  The    *)
(* steps are the event handlers and the continuations of processFile       *)
(* behind its awaits; processing holds, by file id, where each call of     *)
(* processFile is.  The ids of dropped files are distinct.                 *)
(***************************************************************************)
\* number of files dropped on the component
MaxFiles == 3

\* the ids of the files of the list
FileIds(files) == {files[i].id : i \in 1..Len(files)}

\* file-upload-component.tsx lines 227-232
NewFile(id, type) == [id |-> id, type |-> type, status |-> "uploading", progress |-> 0]

\* prev.map(f => f.id === id ? { ...f, status, progress } : f)
SetStatus(files, id, status, progress) ==
  [i \in 1..Len(files) |->
     IF files[i].id = id
     THEN [files[i] EXCEPT !.status = status, !.progress = progress]
     ELSE files[i]]

\* the updater of the catch block, setting progress to 0 as well
SetErrorResettingProgress(files, id) ==
  [i \in 1..Len(files) |->
     IF files[i].id = id
     THEN [files[i] EXCEPT !.status = "error", !.progress = 0]
     ELSE files[i]]

\* file-upload-component.tsx lines 210-216
SetError(files, id) ==
  [i \in 1..Len(files) |->
     IF files[i].id = id THEN [files[i] EXCEPT !.status = "error"] ELSE files[i]]

\* prev.filter(file => file.id !== fileId)
RECURSIVE Without(_, _)
Without(files, id) ==
  IF files = <<>> THEN <<>>
  ELSE IF Head(files).id = id THEN Without(Tail(files), id)
  ELSE <<Head(files)>> \o Without(Tail(files), id)

\* lines 144-160: processFile up to its first await; the PDF library is
\* needed for a PDF
StartsExtraction(type, loaded) == type # Pdf \/ loaded

ProcessFileStart(files, id, type, loaded) ==
  IF StartsExtraction(type, loaded)
  THEN SetStatus(files, id, "extracting", 25)
  ELSE SetError(SetStatus(files, id, "extracting", 25), id)

\* lines 234-239: the new files are appended and processFile is called for
\* each, in order; types are those of the new files, the first has id `id`
RECURSIVE ProcessEach(_, _, _, _)
ProcessEach(files, id, types, loaded) ==
  IF types = <<>> THEN files
  ELSE ProcessEach(ProcessFileStart(files, id, Head(types), loaded), id + 1,
                   Tail(types), loaded)

NewFiles(id, types) == [i \in 1..Len(types) |-> NewFile(id + i - 1, types[i])]

\* where processFile is for each of the new files
NewProcessing(types, loaded) ==
  [i \in 1..Len(types) |->
     IF StartsExtraction(types[i], loaded) THEN "extracting" ELSE "done"]

\* the files dropped together
Drops == UNION {[1..n -> {Pdf, Docx}] : n \in 1..2}

InitUpload ==
  /\ NoUploads
  /\ NoRequests
  /\ NoClauses
  /\ NoUsers
  /\ lastIndex = InitialLastIndex
  /\ invocations = NoInvocations
  /\ text = ""
  /\ pc = "idle"
  /\ cleanText = ""
  /\ detectedIssues = <<>>
  /\ riskScore = Zero
  /\ result = NoResult
  /\ calls = 0

UploadStep ==
  UNCHANGED <<callVars, detectedIssues, riskScore, lastIndex, invocations, requestVars,
              clauseVars, userVars>>

\* lines 54-86: the effect that loads PDF.js
LoadPdfJs ==
  /\ ~pdfJsLoaded
  /\ pdfJsLoaded' = TRUE
  /\ UNCHANGED <<uploadedFiles, processing, nextId>>
  /\ UploadStep

\* lines 220-240
OnDrop(types) ==
  /\ nextId + Len(types) - 1 <= MaxFiles
  /\ uploadedFiles' = ProcessEach(uploadedFiles \o NewFiles(nextId, types), nextId, types,
                                   pdfJsLoaded)
  /\ processing' = processing \o NewProcessing(types, pdfJsLoaded)
  /\ nextId' = nextId + Len(types)
  /\ UNCHANGED pdfJsLoaded
  /\ UploadStep

\* lines 157-165 and 208-216: the extraction settles
Extracted(id, ok) ==
  /\ id \in DOMAIN processing
  /\ processing[id] = "extracting"
  /\ uploadedFiles' = IF ok THEN SetStatus(uploadedFiles, id, "analyzing", 75)
                      ELSE SetError(uploadedFiles, id)
  /\ processing' = [processing EXCEPT ![id] = IF ok THEN "analyzing" ELSE "done"]
  /\ UNCHANGED <<nextId, pdfJsLoaded>>
  /\ UploadStep

\* lines 168-216: the answer of /api/analyze arrives; success is
\* analysisResponse.ok && result.success
Analyzed200(id, success) ==
  /\ id \in DOMAIN processing
  /\ processing[id] = "analyzing"
  /\ uploadedFiles' = IF success THEN SetStatus(uploadedFiles, id, "completed", 100)
                      ELSE SetError(uploadedFiles, id)
  /\ processing' = [processing EXCEPT ![id] = "done"]
  /\ UNCHANGED <<nextId, pdfJsLoaded>>
  /\ UploadStep

\* lines 258-260
RemoveFile(fileId) ==
  /\ fileId \in FileIds(uploadedFiles)
  /\ uploadedFiles' = Without(uploadedFiles, fileId)
  /\ UNCHANGED <<processing, nextId, pdfJsLoaded>>
  /\ UploadStep

NextUpload ==
  \/ LoadPdfJs
  \/ \E types \in Drops : OnDrop(types)
  \/ \E id \in 1..MaxFiles, ok \in BOOLEAN : Extracted(id, ok)
  \/ \E id \in 1..MaxFiles, success \in BOOLEAN : Analyzed200(id, success)
  \/ \E fileId \in 1..MaxFiles : RemoveFile(fileId)

SpecUpload == InitUpload /\ [][NextUpload]_vars

(***************************************************************************)
(* Properties.                                                             *)
(***************************************************************************)
Returned == pc = "returned"

IssueIds == [i \in 1..Len(result.issues) |-> result.issues[i].id]

IdSet == {result.issues[i].id : i \in 1..Len(result.issues)}

\* the position of a rule in the registry
RegistryIndex(id) ==
  CHOOSE i \in 1..Len(indianLegalPatterns) : indianLegalPatterns[i].id = id

\* the entry the scan after the loop pushes
IsPostPassIssue(issue) ==
  /\ issue.id = "missing_arbitration"
  /\ issue.matchedText = SyntheticExcerpt

\* the weight of a severity in hundredths
WeightHundredths(riskLevel) ==
  IF riskLevel = "HIGH" THEN 25 ELSE IF riskLevel = "MEDIUM" THEN 15 ELSE 10

RECURSIVE SumHundredths(_)
SumHundredths(ids) ==
  IF ids = {} THEN 0
  ELSE LET id == CHOOSE x \in ids : TRUE
       IN WeightHundredths(indianLegalPatterns[RegistryIndex(id)].riskLevel)
            + SumHundredths(ids \ {id})

ScenarioText ==
  "This agreement shall be governed by the laws of England. "
    \o "The employer may terminate employment immediately without notice."

AllFiveRules ==
  {"unlimited_liability", "penalty_clause", "foreign_jurisdiction",
   "missing_arbitration", "unfair_termination"}

\* C1: for every input text the returned riskScore lies in [0, 1].
C1_RiskScoreInUnitInterval ==
  Returned => /\ ~Less(result.riskScore, Zero)
              /\ ~Less(Literal(100), result.riskScore)

\* the accumulated sum exceeded 1 and the cap acted
C1_Witness ==
  /\ Returned
  /\ Less(Literal(100), riskScore)
  /\ result.riskScore = Literal(100)

\* C2: for the empty string the result has riskScore 0.15 and exactly one
\* issue, missing_arbitration.
C2_EmptyString ==
  (Returned /\ text = "") =>
     /\ result.riskScore = Literal(15)
     /\ result.totalIssues = 1
     /\ IssueIds = <<"missing_arbitration">>

\* C3: for the scenario text the result has exactly three issues, with ids
\* foreign_jurisdiction, unfair_termination and missing_arbitration, each
\* MEDIUM, and riskScore 0.45.
C3_Scenario ==
  (Returned /\ text = ScenarioText) =>
     /\ Len(result.issues) = 3
     /\ IdSet = {"foreign_jurisdiction", "unfair_termination", "missing_arbitration"}
     /\ \A i \in 1..Len(result.issues) : result.issues[i].riskLevel = "MEDIUM"
     /\ result.riskScore = Literal(45)

\* the text contains the three phrases and no foreign-governing-law or
\* unfair-termination phrase
C4_Case ==
  /\ Returned
  /\ Includes(text, "unlimited liability")
  /\ Includes(text, "penalty")
  /\ Includes(text, "arbitration")
  /\ StringMatch(cleanText, ForeignJurisdictionPattern) = <<>>
  /\ StringMatch(cleanText, UnfairTerminationPattern) = <<>>

\* C4: a text that contains "unlimited liability", "penalty" and
\* "arbitration" and no foreign-governing-law or unfair-termination phrase
\* yields exactly the two HIGH issues unlimited_liability and penalty_clause,
\* no missing_arbitration, and riskScore 0.5.
C4_TwoHighIssues ==
  C4_Case =>
     /\ IssueIds = <<"unlimited_liability", "penalty_clause">>
     /\ \A i \in 1..Len(result.issues) : result.issues[i].riskLevel = "HIGH"
     /\ "missing_arbitration" \notin IdSet
     /\ result.riskScore = Literal(50)

C4_Witness == C4_Case /\ result.totalIssues = 2

\* the normalized text mentions, in any case, arbitration, mediation, dispute
\* resolution or a jurisdiction followed by a court
MentionsDisputeResolution ==
  LET folded == CanonicalizeString(cleanText)
  IN \/ Includes(folded, "arbitration")
     \/ Includes(folded, "mediation")
     \/ Includes(folded, "dispute resolution")
     \/ \E p \in 1..Len(folded) :
          /\ LitAt("jurisdiction", folded, p)
          /\ Includes(SubSeq(folded, p + Len("jurisdiction"), Len(folded)), "court")

\* C5: missing_arbitration is in the result if and only if the normalized
\* text mentions, case-insensitively, none of arbitration, mediation, dispute
\* resolution or court-jurisdiction phrasing.
C5_MissingIffNoMention ==
  Returned => (("missing_arbitration" \in IdSet) <=> ~MentionsDisputeResolution)

\* C6: no two entries of issues share an id.
C6_OneIssuePerRule ==
  Returned => \A i, j \in 1..Len(result.issues) :
                 i # j => result.issues[i].id # result.issues[j].id

\* C7 as stated: whenever issue A precedes issue B in the output, A's rule
\* precedes B's rule in the registry.
C7_RegistryOrder ==
  Returned => \A i, j \in 1..Len(result.issues) :
                 i < j => RegistryIndex(result.issues[i].id)
                            < RegistryIndex(result.issues[j].id)

\* C7 amended: the issues of the main loop appear in registry order, and the
\* issue of the scan after the loop, when present, is the last entry: whenever
\* A precedes B, A's rule precedes B's rule in the registry or B is the last
\* entry and comes from the scan after the loop.
C7_RegistryOrderThenPostPass ==
  Returned => \A i, j \in 1..Len(result.issues) :
                 i < j => \/ RegistryIndex(result.issues[i].id)
                               < RegistryIndex(result.issues[j].id)
                          \/ /\ j = Len(result.issues)
                             /\ IsPostPassIssue(result.issues[j])

\* two issues of the main loop, then the issue of the scan after it
C7_Witness ==
  /\ Returned
  /\ Len(result.issues) >= 3
  /\ IsPostPassIssue(result.issues[Len(result.issues)])
  /\ result.issues[Len(result.issues) - 1].id = "unfair_termination"
  /\ ~IsPostPassIssue(result.issues[1])

\* C8: riskScore is min(1, sum of the weights of the distinct rules that
\* triggered), each rule counted once.
C8_ScoreIsCappedSumOfRules ==
  Returned => result.riskScore = Literal(Min(100, SumHundredths(IdSet)))

\* C9: a text that triggers all five rules yields exactly 0.95, and a text
\* whose accumulated weights exceed 1.0 yields exactly 1.0.
C9_Clamp ==
  Returned => /\ (IdSet = AllFiveRules => result.riskScore = Literal(95))
              /\ (Less(Literal(100), riskScore) => result.riskScore = Literal(100))

\* C10: totalIssues equals the length of the issues list.
C10_TotalIssuesIsLength ==
  Returned => result.totalIssues = Len(result.issues)

\* a result with several issues
C10_Witness ==
  /\ Returned
  /\ Len(result.issues) >= 2
  /\ result.totalIssues >= 2

\* C11: whatever calls came before, analyzeDocument(t) returns what it
\* returns when it is the first call.
C11_HistoryIndependent ==
  Returned => result = analyzeDocument(text, FreshEnvironment).result

\* a second call has returned issues
C11_Witness ==
  /\ Returned
  /\ calls >= 2
  /\ Len(result.issues) >= 2

\* what a first call on t returns
Alone(t) == analyzeDocument(t, FreshEnvironment).result

Ids(r) == [i \in 1..Len(r.issues) |-> r.issues[i].id]

\* phrases that trigger a rule: penalty_clause, unfair_termination,
\* unfair_termination by a match of its pattern that names arbitration, and
\* penalty_clause in upper case
TriggeringPhrases ==
  { "penalty of Rs 500. ", "may terminate at will. ",
    "terminate arbitration at will. ", "PENALTY set in ARBITRATION. " }

DisputeWords == {"arbitration", "mediation", "dispute resolution", "court"}

\* no occurrence of a dispute-resolution word, in any letter case, in the
\* normalized t2 reaches beyond the normalized t1
NoMentionBeyond(canonical, len) ==
  \A w \in DisputeWords :
    \A q \in 1..Len(canonical) : LitAt(w, canonical, q) => q + Len(w) - 1 <= len

AddsNoDisputeMention(t1, t2) ==
  NoMentionBeyond(CanonicalizeString(CleanText(t2)), Len(CleanText(t1)))

\* C12 as stated: appending a rule-triggering phrase to a text never lowers
\* the riskScore.
C12_Monotone ==
  Returned => \A p \in TriggeringPhrases :
                 ~Less(Alone(text \o p).riskScore, result.riskScore)

\* C12 amended: appending a rule-triggering phrase that adds no mention of
\* arbitration, mediation, dispute resolution or court never lowers the
\* riskScore.
C12_MonotoneWithoutDisputeMention ==
  Returned => \A p \in TriggeringPhrases :
                 AddsNoDisputeMention(text, text \o p)
                   => ~Less(Alone(text \o p).riskScore, result.riskScore)

\* the appended phrase triggers a rule the text did not trigger and the
\* riskScore grows
C12_Witness ==
  /\ Returned
  /\ "penalty_clause" \notin IdSet
  /\ AddsNoDisputeMention(text, text \o "penalty of Rs 500. ")
  /\ Less(result.riskScore, Alone(text \o "penalty of Rs 500. ").riskScore)

\* C13: the text, the text in upper case and the text in lower case yield the
\* same sequence of rule ids and the same riskScore.
C13_CaseInsensitive ==
  Returned => /\ Ids(Alone(ToUpperCase(text))) = IssueIds
              /\ Alone(ToUpperCase(text)).riskScore = result.riskScore
              /\ Ids(Alone(ToLowerCase(text))) = IssueIds
              /\ Alone(ToLowerCase(text)).riskScore = result.riskScore

\* the first match of a rule's pattern in the cleaned text
FirstMatch(id) ==
  StringMatch(cleanText, indianLegalPatterns[RegistryIndex(id)].pattern)[1]

\* C14: matchedText of an issue of the loop is the first match when that has
\* at most 100 characters, and its first 100 characters followed by "..."
\* when it is longer; no matchedText has more than 103 characters.
C14_Excerpt ==
  Returned => \A i \in 1..Len(result.issues) :
     /\ Len(result.issues[i].matchedText) <= 103
     /\ ~IsPostPassIssue(result.issues[i]) =>
          IF Len(FirstMatch(result.issues[i].id)) <= 100
          THEN result.issues[i].matchedText = FirstMatch(result.issues[i].id)
          ELSE /\ Len(result.issues[i].matchedText) = 103
               /\ SubSeq(result.issues[i].matchedText, 1, 100)
                    = SubSeq(FirstMatch(result.issues[i].id), 1, 100)
               /\ SubSeq(result.issues[i].matchedText, 101, 103) = "..."

\* an issue whose match is longer than 100 characters, and one whose match
\* is shorter
C14_Witness ==
  /\ Returned
  /\ \E i \in 1..Len(result.issues) : Len(result.issues[i].matchedText) = 103
  /\ \E i \in 1..Len(result.issues) :
       /\ ~IsPostPassIssue(result.issues[i])
       /\ Len(result.issues[i].matchedText) < 100

\* the result is an AnalysisResult: a score in [0, 1], a list of issues of
\* rules of the registry and its length
ValidResult(r) ==
  /\ ~Less(r.riskScore, Zero)
  /\ ~Less(Literal(100), r.riskScore)
  /\ r.totalIssues = Len(r.issues)
  /\ \A i \in 1..Len(r.issues) :
       /\ r.issues[i].id \in DOMAIN InitialLastIndex
       /\ r.issues[i].matches >= 1

C16_Total ==
  /\ pc # "threw"
  /\ Returned => ValidResult(result)

\* calls on the empty text, which no pattern of the loop but the one of
\* missing_arbitration matches, and on a one-character text have returned
C16_Witness ==
  /\ Returned
  /\ Len(text) <= 2
  /\ Len(result.issues) = 2

\* the text with every run of white space replaced by ws
RECURSIVE WithWhiteSpaceRange(_, _, _, _)
WithWhiteSpaceRange(s, ws, lo, hi) ==
  IF lo > hi THEN ""
  ELSE IF lo = hi
       THEN (IF CharAt(s, lo) \notin WhiteSpace THEN CharAt(s, lo)
             ELSE IF lo > 1 /\ CharAt(s, lo - 1) \in WhiteSpace THEN ""
             ELSE ws)
  ELSE LET mid == (lo + hi) \div 2
       IN WithWhiteSpaceRange(s, ws, lo, mid) \o WithWhiteSpaceRange(s, ws, mid + 1, hi)

WithWhiteSpace(s, ws) == WithWhiteSpaceRange(s, ws, 1, Len(s))

\* runs of white space: a line feed, a tab and a space, several of each
WhiteSpaceRuns == {"\n", "\t ", " \r\n\n  "}

\* C17: texts that differ only in the white space making up each run yield
\* equal results.
C17_WhiteSpaceNormalized ==
  Returned => \A ws \in WhiteSpaceRuns : Alone(WithWhiteSpace(text, ws)) = result

\* a rule phrase written with spaces is detected, and so it is when wrapped
C17_Witness ==
  /\ Returned
  /\ Includes(text, "unlimited liability")
  /\ "unlimited_liability" \in IdSet
  /\ "unlimited_liability" \in
       {Alone(WithWhiteSpace(text, "\n")).issues[i].id :
          i \in 1..Len(Alone(WithWhiteSpace(text, "\n")).issues)}

\* C20: the loop does not visit the missing_arbitration rule, and every
\* missing_arbitration issue of a result has matches = 1 and the excerpt
\* "No dispute resolution mechanism found in document".
C20_TwoPass ==
  Returned =>
    /\ \A i \in 1..Len(LoopRules) : LoopRules[i].id # "missing_arbitration"
    /\ \A i \in 1..Len(result.issues) :
         result.issues[i].id = "missing_arbitration"
           => /\ result.issues[i].matches = 1
              /\ result.issues[i].matchedText = SyntheticExcerpt

\* C18: under any interleaving of the steps of several invocations the
\* registry stays as it was, and every invocation that has returned holds
\* the result a call alone returns for its text.
C18_ConcurrentAsAlone ==
  /\ lastIndex = InitialLastIndex
  /\ \A n \in DOMAIN invocations :
       /\ invocations[n].pc # "threw"
       /\ invocations[n].pc = "done"
            => invocations[n].result = Alone(invocations[n].text)

\* two invocations that ran interleaved have returned different results
C18_Witness ==
  \E n, m \in DOMAIN invocations :
    /\ invocations[n].pc = "done" /\ invocations[n].overlapped
    /\ invocations[m].pc = "done" /\ invocations[m].overlapped
    /\ invocations[n].result.issues # <<>>
    /\ invocations[n].result # invocations[m].result

\* C19: a request to /api/analyze or /api/upload whose text is empty or has
\* fewer than 10 words is answered with an error, and the handler has called
\* neither analyzeDocument nor document.create nor analysis.create.
C19_RejectedBeforeCore ==
  (/\ request.route \in {"/api/analyze", "/api/upload"}
   /\ (TrimmedIsEmpty(request.content) \/ request.wordCount < MinimumWords))
    => /\ response.status >= 400
       /\ \A i \in 1..Len(events) :
            events[i] \notin {"analyzeDocument", "document.create", "analysis.create"}

\* the weights of the first n issues, added in their order
RECURSIVE WeightsAdded(_, _)
WeightsAdded(issues, n) ==
  IF n = 0 THEN Zero
  ELSE Add(WeightsAdded(issues, n - 1), riskWeight(issues[n].riskLevel))

\* the issues the loop emitted for the rule id
LoopIssuesOf(id) ==
  {i \in 1..Len(result.issues) :
     result.issues[i].id = id /\ ~IsPostPassIssue(result.issues[i])}

\* the loop emitted for the rule what n matches of its pattern call for
LoopEmitted(id, n) ==
  IF n = 0 THEN LoopIssuesOf(id) = {}
  ELSE /\ Cardinality(LoopIssuesOf(id)) = 1
       /\ \A i \in LoopIssuesOf(id) : result.issues[i].matches = n

\* C21: matches of every issue is at least 1; the loop emits for a rule one
\* issue whose matches is the number of non-overlapping matches of the rule's
\* pattern in the cleaned text, and none for a rule without a match; the
\* accumulated score is the sum of the weights of the emitted issues only.
C21_MatchCount ==
  Returned =>
    /\ \A i \in 1..Len(result.issues) : result.issues[i].matches >= 1
    /\ \A r \in 1..Len(indianLegalPatterns) :
         LoopEmitted(indianLegalPatterns[r].id,
                     Len(StringMatch(cleanText, indianLegalPatterns[r].pattern)))
    /\ riskScore = WeightsAdded(result.issues, Len(result.issues))

\* a rule with two matches, and a rule without a match and without an issue
C21_Witness ==
  /\ Returned
  /\ \E i \in 1..Len(result.issues) : result.issues[i].matches = 2
  /\ "unfair_termination" \notin IdSet
  /\ StringMatch(cleanText, UnfairTerminationPattern) = <<>>

\* C29: extractClausesFromText returns at least one clause; when no section
\* has 50 characters or more once trimmed, it returns the single clause
\* full_document whose text is the input when that has at most 2000
\* characters, and its first 2000 characters followed by "..." otherwise.
C29_NeverEmpty ==
  Returned =>
    /\ Len(clauses) >= 1
    /\ (\A i \in 1..Len(Split(text)) : Len(Trim(Split(text)[i])) < MinimumSectionLength)
         => /\ Len(clauses) = 1
            /\ clauses[1].tag = "full_document"
            /\ clauses[1].text =
                 IF Len(text) <= MaxClauseText THEN text
                 ELSE SubSeq(text, 1, MaxClauseText) \o "..."

\* a text of more than 2000 characters without a section of 50 characters
C29_Witness ==
  /\ Returned
  /\ Len(text) > MaxClauseText
  /\ clauses[1].tag = "full_document"
  /\ Len(clauses[1].text) = MaxClauseText + 3

\* the quotes of a JSON text that open or close a string: those behind an
\* even number of backslashes
UnescapedQuotes(s) ==
  {i \in 1..Len(s) :
     /\ CharAt(s, i) = "\""
     /\ (i - 1 - Greatest({0} \cup {j \in 1..(i - 1) : CharAt(s, j) # "\\"})) % 2 = 0}

\* position p is outside the strings of the JSON text
OutsideStrings(p, quotes) == Cardinality({q \in quotes : q < p}) % 2 = 0

StructuralChars(s, chars, quotes) ==
  {i \in 1..Len(s) : CharAt(s, i) \in chars /\ OutsideStrings(i, quotes)}

TopLevelCommas(s, quotes, opens, closes) ==
  {i \in StructuralChars(s, {","}, quotes) :
     Cardinality({o \in opens : o < i}) - Cardinality({c \in closes : c < i}) = 1}

\* JSON.parse(s) is an array
ParsesAsArray(s) == Len(s) >= 2 /\ CharAt(s, 1) = "[" /\ CharAt(s, Len(s)) = "]"

ElementCount(s, quotes) ==
  IF Len(s) = 2 THEN 0
  ELSE 1 + Cardinality(TopLevelCommas(s, quotes, StructuralChars(s, {"[", "{"}, quotes),
                                      StructuralChars(s, {"]", "}"}, quotes)))

\* JSON.parse(s).length
ParsedLength(s) == ElementCount(s, UnescapedQuotes(s))

\* C22: the issues column of every stored Analysis is the JSON serialization
\* of an array, and totalIssues is the length of that array.
C22_IssuesColumnIsArray ==
  \A i \in 1..Len(db.analyses) :
    /\ ParsesAsArray(db.analyses[i].issues)
    /\ ParsedLength(db.analyses[i].issues) = db.analyses[i].totalIssues

\* C23: the riskScore of every stored Analysis lies in [0, 1].
C23_StoredRiskScoreInUnitInterval ==
  \A i \in 1..Len(db.analyses) :
    /\ ~Less(db.analyses[i].riskScore, Zero)
    /\ ~Less(Literal(100), db.analyses[i].riskScore)

\* C24: POST /api/upload of a file whose type isSupportedFileType accepts and
\* whose size is within the limit never fails with a 500 for its type.
C24_SupportedTypesAreExtracted ==
  (/\ request.route = "/api/upload"
   /\ isSupportedFileType(request.mimeType)
   /\ validateFileSize(request.size))
    => ~(response.status = 500 /\ Includes(response.body, "Unsupported file type"))

\* C25: a POST /api/analyze request ends with a Document and its Analysis
\* both created and a success response, or with neither created and an
\* error response.
C25_AnalyzePersistsAtomically ==
  [][(handled' = handled + 1 /\ request'.route = "/api/analyze")
       => \/ /\ response'.status = 200
             /\ Len(db'.documents) = Len(db.documents) + 1
             /\ Len(db'.analyses) = Len(db.analyses) + 1
             /\ db'.analyses[Len(db'.analyses)].documentId = Len(db'.documents)
          \/ /\ response'.status # 200
             /\ db' = db]_vars

\* the bucket of a risk score
Bucket(score) ==
  IF ~Less(Literal(30), score) THEN "low"
  ELSE IF ~Less(Literal(70), score) THEN "medium"
  ELSE "high"

\* the analyzed documents of a bucket
InBucket(bucket) ==
  {id \in 1..Len(db.documents) :
     \E i \in 1..Len(db.analyses) :
       /\ db.analyses[i].documentId = id
       /\ Bucket(db.analyses[i].riskScore) = bucket}

C26_OnePersistedDefaultUser ==
  /\ Cardinality(UsersWithEmail(users, DefaultEmail)) <= 1
  /\ \A c \in DOMAIN ensureCalls :
       /\ ensureCalls[c].pc # "threw"
       /\ ensureCalls[c].pc = "returned" => ensureCalls[c].returned \in users

\* the place of a status in uploading -> extracting -> analyzing -> completed
StatusRank(status) ==
  IF status = "uploading" THEN 1
  ELSE IF status = "extracting" THEN 2
  ELSE IF status = "analyzing" THEN 3
  ELSE 4

\* a file of the list goes from the entry before to the entry after
MovesForward(before, after) ==
  /\ \/ after.status = before.status
     \/ /\ before.status \in {"uploading", "extracting", "analyzing"}
        /\ after.status \in {"extracting", "analyzing", "completed"}
        /\ StatusRank(before.status) < StatusRank(after.status)
     \/ /\ before.status \in {"uploading", "extracting", "analyzing"}
        /\ after.status = "error"
  /\ after.progress >= before.progress

\* C27: the status of each file of the upload component only moves forward
\* along uploading, extracting, analyzing, completed, or from one of the
\* first three to error; completed and error are final; progress never
\* decreases; and a file that was removed is never in the list again.
C27_StatusMovesForward ==
  [][/\ \A i \in 1..Len(uploadedFiles), j \in 1..Len(uploadedFiles') :
          uploadedFiles[i].id = uploadedFiles'[j].id
            => MovesForward(uploadedFiles[i], uploadedFiles'[j])
     /\ \A j \in 1..Len(uploadedFiles') :
          uploadedFiles'[j].id \in FileIds(uploadedFiles) \/ uploadedFiles'[j].id >= nextId
    ]_vars

\* a file was removed while the answer of /api/analyze is awaited for it;
\* another failed in the analysis and keeps its progress of 75; a third is
\* completed
C27_Witness ==
  /\ \E id \in DOMAIN processing :
       /\ processing[id] = "analyzing"
       /\ id \notin FileIds(uploadedFiles)
  /\ \E i \in 1..Len(uploadedFiles) :
       /\ uploadedFiles[i].status = "error"
       /\ uploadedFiles[i].progress = 75
  /\ \E i \in 1..Len(uploadedFiles) : uploadedFiles[i].status = "completed"

====
